---------------------------- MODULE Spec2Model ----------------------------
(***************************************************************************)
(* A model of fluxcap's TimeMachine (src/fluxcap/src/time.rs): the phrase  *)
(* grammar, the tree evaluator and the eval/parse entry points.            *)
(*                                                                         *)
(* Instants are integers: TicksPerDay ticks per calendar day, day 0 being  *)
(* 0000-03-01 of the proleptic Gregorian calendar.  Every Range the        *)
(* calendar algebra produces starts and ends at midnight; only the         *)
(* reference instant of a call may lie inside a day.                       *)
(***************************************************************************)
EXTENDS Integers, Sequences, FiniteSets, TLC

VARIABLES
    parser,   \* TimeMachine.parser: the grammar the Earley parser was built with
    build,    \* "debug" | "release": whether integer overflow checks are compiled in
    pc,       \* "idle" | "running" | "searching" | "panicked": where the call stands
    call,     \* the arguments of the call in progress (or of the last call)
    result,   \* the value the last finished call returned or the panic it raised
    spin,     \* iterations of a search loop that has not produced yet (mod SpinMod)
    log,      \* the finished eval calls the observer still remembers
    cx,        \* MathContext.0: the variables of the arithmetic context
    rpn,       \* the RPNExpr handed to the arithmetic evaluators
    evaluated, \* what MathContext::eval returned for rpn
    compiled,  \* what MathContext::compile returned for rpn
    opvalue    \* what eval() of the compiled MathOp returned

timevars == <<parser, build, pc, call, result, spin, log>>
mathvars == <<cx, rpn, evaluated, compiled, opvalue>>
vars == <<parser, build, pc, call, result, spin, log,
          cx, rpn, evaluated, compiled, opvalue>>

---------------------------------------------------------------------------
(* Bounds of the model.                                                    *)

\* Sub-day resolution of an instant: tick 0 of a day is its midnight.
TicksPerDay == 2
\* How far (in days) past its anchor a search for an occurrence looks.
Horizon == 4400
\* The largest count n written out in a "<number> <duration>" of the shift texts.
MaxN == 3
\* How many finished calls the observer of the history keeps.
MaxLog == 2
\* The search loop's iteration counter is kept modulo this.
SpinMod == 2

---------------------------------------------------------------------------
(* The Gregorian calendar (chrono's NaiveDate arithmetic).                  *)

Min(S) == CHOOSE x \in S : \A y \in S : x <= y
Max(S) == CHOOSE x \in S : \A y \in S : x >= y

IsLeap(y) == (y % 4 = 0 /\ y % 100 # 0) \/ y % 400 = 0

DaysInMonth(y, m) ==
    IF m = 2 THEN (IF IsLeap(y) THEN 29 ELSE 28)
    ELSE IF m \in {4, 6, 9, 11} THEN 30 ELSE 31

\* Day number of the civil date y-m-d (days since 0000-03-01).
DaysFromCivil(y, m, d) ==
    LET yy  == IF m <= 2 THEN y - 1 ELSE y
        era == yy \div 400
        yoe == yy % 400
        mp  == IF m > 2 THEN m - 3 ELSE m + 9
        doy == (153 * mp + 2) \div 5 + d - 1
        doe == yoe * 365 + yoe \div 4 - yoe \div 100 + doy
    IN  era * 146097 + doe

\* The civil date <<y, m, d>> of a day number, step by step: from the era and
\* the day of the era to the year of the era, the day of the year (from
\* March 1st) and the month (from March).
CivilOfMonth(era, yoe, doy, mp) ==
    <<yoe + era * 400 + (IF mp < 10 THEN 0 ELSE 1),
      IF mp < 10 THEN mp + 3 ELSE mp - 9,
      doy - (153 * mp + 2) \div 5 + 1>>
CivilOfDoy(era, yoe, doy) == CivilOfMonth(era, yoe, doy, (5 * doy + 2) \div 153)
CivilOfYoe(era, doe, yoe) ==
    CivilOfDoy(era, yoe, doe - (365 * yoe + yoe \div 4 - yoe \div 100))
CivilOfDoe(era, doe) ==
    CivilOfYoe(era, doe,
               (doe - doe \div 1460 + doe \div 36524 - doe \div 146096) \div 365)
CivilFromDays(z) == CivilOfDoe(z \div 146097, z % 146097)

YearOf(z)  == CivilFromDays(z)[1]
MonthOf(z) == CivilFromDays(z)[2]
DomOf(z)   == CivilFromDays(z)[3]

\* Weekday of a day number, Sunday = 0 ... Saturday = 6.
WeekdayOf(z) == (z + 3) % 7

\* Midnight of a day, and the day an instant falls in.
Midnight(z) == z * TicksPerDay
DayOf(t) == t \div TicksPerDay

\* Midnight of the civil date y-m-dd.
ymd(y, m, dd) == Midnight(DaysFromCivil(y, m, dd))

---------------------------------------------------------------------------
(* Values: kronos::Range, and the outcomes of an evaluation.  One record   *)
(* shape serves all of them, so that any two can be compared.              *)

Grains == <<"Day", "Week", "Month", "Quarter", "Year">>
GrainRank(g) == CHOOSE i \in 1..Len(Grains) : Grains[i] = g

Range(s, e, g) == [tag |-> "Range", start |-> s, end |-> e, grain |-> g,
                   count |-> 0, msg |-> ""]
Count(n)   == [tag |-> "Count", start |-> 0, end |-> 0, grain |-> "",
               count |-> n, msg |-> ""]
Error(m)   == [tag |-> "Error", start |-> 0, end |-> 0, grain |-> "",
               count |-> 0, msg |-> m]
\* A panic unwinding out of the call.
Panic(m)   == [tag |-> "Panic", start |-> 0, end |-> 0, grain |-> "",
               count |-> 0, msg |-> m]
\* A search that never produces: the call does not come back.
Hang       == [tag |-> "Hang", start |-> 0, end |-> 0, grain |-> "",
               count |-> 0, msg |-> ""]
\* Any other value a call hands back (the derivations of parse, a grain).
Value(m, n) == [tag |-> "Value", start |-> 0, end |-> 0, grain |-> m,
               count |-> n, msg |-> ""]
NoResult   == [tag |-> "None", start |-> 0, end |-> 0, grain |-> "",
               count |-> 0, msg |-> ""]

IsRange(r) == r.tag = "Range"
\* An outcome that is no value: it ends the enclosing evaluation as it is.
Failed(r) == r.tag \in {"Panic", "Hang"}

---------------------------------------------------------------------------
(* kronos sequences.  A kronos::Seq is a closure from a reference instant  *)
(* to a lazy, endless iterator of Ranges; here it is an expression, and    *)
(* Prefix(s, t, hi) is the finite prefix of the iterator s(t) holding its  *)
(* elements that start before hi.                                          *)

day      == [op |-> "day"]
week     == [op |-> "week"]
weekend  == [op |-> "weekend"]
month    == [op |-> "month"]
quarter  == [op |-> "quarter"]
year     == [op |-> "year"]
day_of_week(dow)   == [op |-> "day_of_week", arg |-> dow]
month_of_year(moy) == [op |-> "month_of_year", arg |-> moy]
nthof(n, win, within)  == [op |-> "nthof", arg |-> n, win |-> win, within |-> within]
lastof(n, win, within) == [op |-> "lastof", arg |-> n, win |-> win, within |-> within]
intersect(a, b)    == [op |-> "intersect", a |-> a, b |-> b]

\* Index of a month / quarter since year 0, and the midnight it starts at.
MonthIndexOf(c) == c[1] * 12 + (c[2] - 1)
MonthIndex(z)   == MonthIndexOf(CivilFromDays(z))
MonthStart(mi)  == ymd(mi \div 12, (mi % 12) + 1, 1)
QuarterIndex(z) == MonthIndex(z) \div 3
QuarterStart(q) == ymd(q \div 4, 3 * (q % 4) + 1, 1)
YearStart(y)    == ymd(y, 1, 1)

\* The last day holding an instant before hi.
LastDay(hi) == DayOf(hi - 1)

\* Elements k = 0, 1, ... of a stream given in closed form, while First + k <= Last.
Grid(First, Last, Elem(_)) ==
    IF Last < First THEN <<>> ELSE [i \in 1..(Last - First + 1) |-> Elem(First + i - 1)]

DayRange(z)     == Range(Midnight(z), Midnight(z + 1), "Day")
WeekRange(z)    == Range(Midnight(z), Midnight(z + 7), "Week")
WeekendRange(z) == Range(Midnight(z), Midnight(z + 2), "Day")
MonthRange(mi)  == Range(MonthStart(mi), MonthStart(mi + 1), "Month")
QuarterRange(q) == Range(QuarterStart(q), QuarterStart(q + 1), "Quarter")
YearRange(y)    == Range(YearStart(y), YearStart(y + 1), "Year")

\* The longest an element of s can be, in days.
RECURSIVE MaxSpan(_)
MaxSpan(s) ==
    CASE s.op \in {"day", "day_of_week"} -> 1
      [] s.op = "weekend" -> 2
      [] s.op = "week" -> 7
      [] s.op \in {"month", "month_of_year"} -> 31
      [] s.op = "quarter" -> 92
      [] s.op = "year" -> 366
      [] s.op \in {"nthof", "lastof"} -> MaxSpan(s.win)
      [] s.op = "intersect" -> Min({MaxSpan(s.a), MaxSpan(s.b)})

\* Order of the elements of a stream: by start, then end, then grain.
Precedes(x, y) ==
    \/ x.start < y.start
    \/ x.start = y.start /\ x.end < y.end
    \/ x.start = y.start /\ x.end = y.end /\ GrainRank(x.grain) < GrainRank(y.grain)

Sorted(S) ==
    [i \in 1..Cardinality(S) |->
        CHOOSE x \in S : Cardinality({y \in S : Precedes(y, x)}) = i - 1]

\* The range two ranges share, at the finer grain (Range::intersect).
Overlap(x, y) ==
    Range(Max({x.start, y.start}), Min({x.end, y.end}),
          IF GrainRank(x.grain) <= GrainRank(y.grain) THEN x.grain ELSE y.grain)
Overlaps(x, y) == x.start < y.end /\ y.start < x.end

RECURSIVE Prefix(_, _, _)

\* nthof / lastof: the chosen one of the inner occurrences of one outer
\* occurrence, when there are enough of them.
Pick(s, inner) ==
    IF Len(inner) < s.arg THEN <<>>
    ELSE IF s.op = "nthof" THEN <<inner[s.arg]>>
    ELSE <<inner[Len(inner) - s.arg + 1]>>

\* The inner occurrences of the outer occurrence p are those of win(p.start)
\* that start before p.end.
PickInner(s, p) == Pick(s, Prefix(s.win, p.start, p.end))

\* The elements of a sequence of sequences of length 0 or 1.
Flatten(ss) ==
    LET some(x) == x # <<>>
        kept == SelectSeq(ss, some)
    IN  [i \in 1..Len(kept) |-> kept[i][1]]

\* nthof / lastof over the outer occurrences.
Picks(s, hi, outer) ==
    LET before(x) == x.start < hi
    IN  SelectSeq(Flatten([i \in 1..Len(outer) |-> PickInner(s, outer[i])]), before)

\* intersect: what an element of A and an element of B share.
Meet(A, B) ==
    Sorted({Overlap(A[p[1]], B[p[2]]) :
              p \in {q \in (1..Len(A)) \X (1..Len(B)) : Overlaps(A[q[1]], B[q[2]])}})

\* The streams a composite is made from: the outer one of nthof and lastof,
\* the two sides of intersect; and how far each has to be followed.
Operands(s) == IF s.op = "intersect" THEN <<s.a, s.b>> ELSE <<s.within>>
Reach(s, hi) ==
    IF s.op = "intersect" THEN hi ELSE hi + Midnight(MaxSpan(s.win) - 1)
Combine(s, hi, parts) ==
    IF s.op = "intersect" THEN Meet(parts[1], parts[2]) ELSE Picks(s, hi, parts[1])

\* The elements of s(t) that start before hi, in order.
Prefix(s, t, hi) ==
    LET z0 == DayOf(t)
        zl == LastDay(hi)
    IN
    CASE s.op = "day" -> Grid(z0, zl, DayRange)
      [] s.op = "week" ->
            LET w0 == z0 - WeekdayOf(z0)
                nth(k) == WeekRange(w0 + 7 * k)
            IN  Grid(0, (zl - w0) \div 7, nth)
      [] s.op = "weekend" ->
            LET s0 == IF WeekdayOf(z0) = 0 THEN z0 - 1 ELSE z0 + (6 - WeekdayOf(z0))
                nth(k) == WeekendRange(s0 + 7 * k)
            IN  Grid(0, (zl - s0) \div 7, nth)
      [] s.op = "month" -> Grid(MonthIndex(z0), MonthIndex(zl), MonthRange)
      [] s.op = "quarter" -> Grid(QuarterIndex(z0), QuarterIndex(zl), QuarterRange)
      [] s.op = "year" -> Grid(YearOf(z0), YearOf(zl), YearRange)
      [] s.op = "day_of_week" ->
            LET f0 == z0 + ((s.arg - WeekdayOf(z0)) % 7)
                nth(k) == DayRange(f0 + 7 * k)
            IN  Grid(0, (zl - f0) \div 7, nth)
      [] s.op = "month_of_year" ->
            LET y0 == IF MonthOf(z0) <= s.arg THEN YearOf(z0) ELSE YearOf(z0) + 1
                yl == IF MonthOf(zl) >= s.arg THEN YearOf(zl) ELSE YearOf(zl) - 1
                nth(y) == MonthRange(y * 12 + s.arg - 1)
            IN  Grid(y0, yl, nth)
      [] s.op \in {"nthof", "lastof", "intersect"} ->
            Combine(s, hi, [k \in 1..Len(Operands(s)) |->
                               Prefix(Operands(s)[k], t, Reach(s, hi))])

\* Windows (in days past the anchor) a search widens through before giving up.
SearchWindows == <<40, 400, Horizon>>

\* skip_while on a finite prefix: drop the leading elements that satisfy P.
SkipWhile(xs, P(_)) ==
    LET stop == {i \in 1..Len(xs) : ~P(xs[i])}
    IN  IF stop = {} THEN <<>> ELSE SubSeq(xs, Min(stop), Len(xs))

\* take_while on a finite prefix: keep the leading elements that satisfy P.
TakeWhile(xs, P(_)) ==
    LET stop == {i \in 1..Len(xs) : ~P(xs[i])}
    IN  IF stop = {} THEN xs ELSE SubSeq(xs, 1, Min(stop) - 1)

\* The elements of s(reftime) (with strict: those starting after reftime) in the
\* narrowest window that holds n of them, or in the widest window.
RECURSIVE Widen(_, _, _, _, _)
Settle(got, s, reftime, n, strict, w) ==
    IF Len(got) >= n \/ w = Len(SearchWindows) THEN got
    ELSE Widen(s, reftime, n, strict, w + 1)
Widen(s, reftime, n, strict, w) ==
    LET keep(x) == ~strict \/ x.start > reftime
    IN  Settle(SelectSeq(Prefix(s, reftime, reftime + Midnight(SearchWindows[w])), keep),
               s, reftime, n, strict, w)

\* The n-th element found; a stream that never gets that far keeps the caller
\* waiting.
Element(got, n) == IF Len(got) < n THEN Hang ELSE got[n]

\* kronos::this: the first element of s(reftime).
this(s, reftime) == Element(Widen(s, reftime, 1, FALSE, 1), 1)

\* kronos::next: the n-th element of s(reftime) that starts after reftime.
next(s, n, reftime) ==
    IF n < 1 THEN Panic("assertion failed: n > 0")
    ELSE Element(Widen(s, reftime, n, TRUE, 1), n)

\* kronos::a_year: the calendar year y.
a_year(y) == YearRange(y)

\* The first and last day chrono's NaiveDate can hold.
MinDateYear == 0 - 262144
MaxDateYear == 262143
MinDateDay == DaysFromCivil(MinDateYear, 1, 1)
MaxDateDay == DaysFromCivil(MaxDateYear, 12, 31)

\* A day n months after day z, the day of the month clamped to the target month.
ClampedDay(y, m, dd) == DaysFromCivil(y, m, Min({dd, DaysInMonth(y, m)}))
MonthsFrom(c, mi) == ClampedDay(mi \div 12, (mi % 12) + 1, c[3])
MonthsAfter(c, n) == MonthsFrom(c, MonthIndexOf(c) + n)
AddMonths(z, n) == MonthsAfter(CivilFromDays(z), n)

\* How many units of grain fit between day z and chrono's last day, and between
\* chrono's first day and day z; mi is the month index of z.
RoomAbove(z, mi, grain) ==
    CASE grain = "Day" -> MaxDateDay - z
      [] grain = "Week" -> (MaxDateDay - z) \div 7
      [] grain = "Month" -> MaxDateYear * 12 + 11 - mi
      [] grain = "Quarter" -> (MaxDateYear * 12 + 11 - mi) \div 3
      [] grain = "Year" -> MaxDateYear - mi \div 12
RoomBelow(z, mi, grain) ==
    CASE grain = "Day" -> z - MinDateDay
      [] grain = "Week" -> (z - MinDateDay) \div 7
      [] grain = "Month" -> mi - MinDateYear * 12
      [] grain = "Quarter" -> (mi - MinDateYear * 12) \div 3
      [] grain = "Year" -> mi \div 12 - MinDateYear

\* Whether moving day z by n units of grain stays inside the calendar.
InRoom(n, up, down) == n <= up /\ 0 - down <= n
ShiftInRoom(z, mi, n, grain) ==
    InRoom(n, RoomAbove(z, mi, grain), RoomBelow(z, mi, grain))
ShiftInRange(z, n, grain) == ShiftInRoom(z, MonthIndex(z), n, grain)

\* Day z moved by n units of grain.
ShiftDay(z, n, grain) ==
    CASE grain = "Day" -> z + n
      [] grain = "Week" -> z + 7 * n
      [] grain = "Month" -> AddMonths(z, n)
      [] grain = "Quarter" -> AddMonths(z, 3 * n)
      [] grain = "Year" -> AddMonths(z, 12 * n)

\* The range r at day z1, its length and grain kept.
MovedTo(r, z1) == Range(Midnight(z1), Midnight(z1) + (r.end - r.start), r.grain)

\* kronos::shift: the range moved by n units of grain, its length kept.
shift(r, n, grain) ==
    IF ~ShiftInRange(DayOf(r.start), n, grain) THEN Panic("date out of range")
    ELSE MovedTo(r, ShiftDay(DayOf(r.start), n, grain))

---------------------------------------------------------------------------
(* Lexical resolution: kronos::constants and i32::from_str.  An Option is  *)
(* a sequence of length 0 (None) or 1 (Some).                              *)

MaxI32 == 2147483647
MinI32 == 0 - MaxI32 - 1

\* The first / the other of two Options (Option::or).
OrElse(a, b) == IF a # <<>> THEN a ELSE b

\* The value a table of <<lexeme, value>> pairs gives a lexeme.
Lookup(table, lexeme) ==
    LET hit == {p \in table : p[1] = lexeme}
    IN  IF hit = {} THEN <<>> ELSE <<(CHOOSE p \in hit : TRUE)[2]>>

\* The integers whose decimal spelling the model's texts may hold.
YearSample == {999, 1000, 1984, 1987, 2002, 2014, 2016, 2017, 2018, 2100, 2101}
I32Sample == (0 - MaxN .. MaxN) \cup YearSample \cup {MaxI32, MinI32}
I32Table == {<<ToString(n), n>> : n \in I32Sample}
\* i32::from_str(lexeme).ok()
i32_from_str(lexeme) == Lookup(I32Table, lexeme)

OrdinalWords == <<"first", "second", "third", "fourth", "fifth", "sixth", "seventh",
                  "eighth", "ninth", "tenth">>
OrdinalTable == {<<OrdinalWords[i], i>> : i \in 1..Len(OrdinalWords)}
\* kronos::constants::ordinal
ordinal(lexeme) == Lookup(OrdinalTable, lexeme)

\* The largest number the short ordinals of the model's texts spell.
MaxOrdinal == 32
OrdinalSuffixes == {"st", "nd", "rd", "th"}
ShortOrdinalTable ==
    {<<ToString(n) \o x, n>> : <<n, x>> \in (1..MaxOrdinal) \X OrdinalSuffixes}
\* kronos::constants::short_ordinal: digits and one of st, nd, rd, th
short_ordinal(lexeme) == Lookup(ShortOrdinalTable, lexeme)

WeekdayNames == <<{"sun", "sunday"}, {"mon", "monday"}, {"tue", "tuesday"},
                  {"wed", "wednesday"}, {"thu", "thursday"}, {"fri", "friday"},
                  {"sat", "saturday"}>>
WeekdayTable == UNION {{<<w, i - 1>> : w \in WeekdayNames[i]} : i \in 1..7}
\* kronos::constants::weekday: Sunday is 0
weekday(lexeme) == Lookup(WeekdayTable, lexeme)

MonthNames == <<{"jan", "january"}, {"feb", "february"}, {"mar", "march"},
                {"apr", "april"}, {"may"}, {"jun", "june"}, {"jul", "july"},
                {"aug", "august"}, {"sep", "september"}, {"oct", "october"},
                {"nov", "november"}, {"dec", "december"}>>
MonthTable == UNION {{<<w, i>> : w \in MonthNames[i]} : i \in 1..12}
\* kronos::constants::month: January is 1
k_month(lexeme) == Lookup(MonthTable, lexeme)

---------------------------------------------------------------------------
(* build_grammar: the terminals with their predicates, and the rules.      *)

\* STOP_WORDS: each pattern p is a terminal matching Regex "^p$"; the set is
\* the words of the pattern's language.
STOP_WORDS ==
    { <<"today", {"today"}>>, <<"tomorrow", {"tomorrow"}>>,
      <<"yesterday", {"yesterday"}>>,
      <<"days?", {"day", "days"}>>, <<"weeks?", {"week", "weeks"}>>,
      <<"months?", {"month", "months"}>>, <<"quarters?", {"quarter", "quarters"}>>,
      <<"years?", {"year", "years"}>>, <<"weekends?", {"weekend", "weekends"}>>,
      <<"this", {"this"}>>, <<"next", {"next"}>>, <<"of", {"of"}>>,
      <<"the", {"the"}>>, <<"(of|in)", {"of", "in"}>>, <<"before", {"before"}>>,
      <<"after", {"after"}>>, <<"last", {"last"}>>, <<"until", {"until"}>>,
      <<"from", {"from"}>>, <<"to", {"to"}>>, <<"and", {"and"}>>,
      <<"between", {"between"}>>, <<"in", {"in"}>>, <<"a", {"a"}>>,
      <<"ago", {"ago"}>> }

StopWordSymbols == {p[1] : p \in STOP_WORDS}
ClassifierSymbols == {"<number>", "<ordinal>", "<day-of-week>", "<day-of-month>",
                      "<named-month>", "<year>"}

\* The predicate a terminal symbol was registered with, applied to a lexeme.
Matches(sym, lexeme) ==
    CASE sym \in StopWordSymbols ->
            \E p \in STOP_WORDS : p[1] = sym /\ lexeme \in p[2]
      [] sym = "<number>" -> i32_from_str(lexeme) # <<>>
      [] sym = "<ordinal>" -> OrElse(ordinal(lexeme), short_ordinal(lexeme)) # <<>>
      [] sym = "<day-of-week>" -> weekday(lexeme) # <<>>
      [] sym = "<day-of-month>" ->
            LET dom == OrElse(ordinal(lexeme), short_ordinal(lexeme))
            IN  dom # <<>> /\ 0 < dom[1] /\ dom[1] < 32
      [] sym = "<named-month>" -> k_month(lexeme) # <<>>
      [] sym = "<year>" ->
            LET y == i32_from_str(lexeme)
            IN  y # <<>> /\ 999 < y[1] /\ y[1] < 2101
      [] OTHER -> FALSE

Rule(lhs, rhs) == <<lhs, rhs>>

GrammarRules ==
    { Rule("<the>", <<>>),
      Rule("<the>", <<"the">>),
      Rule("<named-seq>", <<"<named-month>">>),
      Rule("<named-seq>", <<"<day-of-week>">>),
      Rule("<named-seq>", <<"<day-of-month>">>),
      Rule("<duration>", <<"days?">>),
      Rule("<duration>", <<"weeks?">>),
      Rule("<duration>", <<"months?">>),
      Rule("<duration>", <<"quarters?">>),
      Rule("<duration>", <<"years?">>),
      Rule("<cycle>", <<"weekends?">>),
      Rule("<cycle>", <<"<duration>">>),
      Rule("<cycle>", <<"<named-seq>">>),
      Rule("<range>", <<"today">>),
      Rule("<range>", <<"tomorrow">>),
      Rule("<range>", <<"<year>">>),
      Rule("<range>", <<"<named-seq>">>),
      Rule("<range>", <<"<the>", "<day-of-month>">>),
      Rule("<range>", <<"this", "<cycle>">>),
      Rule("<range>", <<"<the>", "next", "<cycle>">>),
      Rule("<range>", <<"<the>", "<cycle>", "after", "next">>),
      Rule("<nth>", <<"<the>", "<ordinal>", "<cycle>", "(of|in)">>),
      Rule("<nth>", <<"<the>", "last", "<cycle>", "(of|in)">>),
      Rule("<range>", <<"<nth>", "<range>">>),
      Rule("<range>", <<"<nth>", "<the>", "<duration>">>),
      Rule("<intersect>", <<"<cycle>">>),
      Rule("<intersect>", <<"<intersect>", "<cycle>">>),
      Rule("<range>", <<"<intersect>", "<cycle>">>),
      Rule("<range>", <<"<intersect>", "<year>">>),
      Rule("<range>", <<"<the>", "<day-of-month>", "of", "<range>">>),
      Rule("<n-duration>", <<"a", "<duration>">>),
      Rule("<n-duration>", <<"<number>", "<duration>">>),
      Rule("<range>", <<"in", "<n-duration>">>),
      Rule("<range>", <<"<n-duration>", "ago">>),
      Rule("<range>", <<"<n-duration>", "after", "<range>">>),
      Rule("<range>", <<"<n-duration>", "before", "<range>">>),
      Rule("<timediff>", <<"<cycle>", "until", "<range>">>),
      Rule("<timediff>", <<"<cycle>", "between", "<range>", "and", "<range>">>),
      Rule("<timediff>", <<"<cycle>", "from", "<range>", "to", "<range>">>),
      Rule("<S>", <<"<range>">>),
      Rule("<S>", <<"<timediff>">>) }

\* The grammar with the rule for "yesterday" that the source leaves disabled,
\* for which no evaluator has a case.
build_grammar_with_yesterday ==
    [terminals |-> StopWordSymbols \cup ClassifierSymbols,
     rules |-> GrammarRules \cup {Rule("<range>", <<"yesterday">>)},
     start |-> "<S>"]

\* The grammar into_grammar("<S>") hands to the parser.
build_grammar ==
    [terminals |-> StopWordSymbols \cup ClassifierSymbols,
     rules |-> GrammarRules,
     start |-> "<S>"]

---------------------------------------------------------------------------
(* lexers::DelimTokenizer and earlgrey: tokens, derivations, Subtrees.     *)

\* A text is a sequence of words and delimiter characters.
Delimiters == {" ", ","}
\* DelimTokenizer::from_str(time, ", ", true): the words between delimiters.
Tokenize(time) ==
    LET word(x) == x \notin Delimiters
    IN  SelectSeq(time, word)

Leaf(sym, lexeme) == [kind |-> "Leaf", spec |-> sym, lexeme |-> lexeme, subn |-> <<>>]
Node(spec, subn)  == [kind |-> "Node", spec |-> spec, lexeme |-> "", subn |-> subn]

\* The signature earlgrey names a rule by: "lhs -> sym sym ...".
RECURSIVE Spaced(_)
Spaced(rhs) == IF rhs = <<>> THEN "" ELSE " " \o Head(rhs) \o Spaced(Tail(rhs))
Signature(r) == r[1] \o " ->" \o Spaced(r[2])

\* A symbol that derives the empty string (here: by a rule with no body).
Nullable(g, sym) == Rule(sym, <<>>) \in g.rules
\* The fewest tokens a rule body can derive, each other symbol taking one or more.
MinTokens(g, rhs) == Cardinality({i \in 1..Len(rhs) : ~Nullable(g, rhs[i])})

RECURSIVE TreesOf(_, _, _), Derive(_, _, _)
\* Every way the symbols of rhs derive toks between them: the child lists.
Derive(g, rhs, toks) ==
    IF rhs = <<>> THEN (IF toks = <<>> THEN {<<>>} ELSE {})
    ELSE
        LET n == Len(toks)
            lo == IF Nullable(g, rhs[1]) THEN 0 ELSE 1
            hi == IF rhs[1] \in g.terminals THEN 1 ELSE n - MinTokens(g, Tail(rhs))
            split(i) ==
                LET first == TreesOf(g, rhs[1], SubSeq(toks, 1, i))
                IN  IF first = {} THEN {}
                    ELSE {<<c>> \o ks : c \in first,
                                        ks \in Derive(g, Tail(rhs), SubSeq(toks, i + 1, n))}
        IN  IF n < MinTokens(g, rhs) THEN {} ELSE UNION {split(i) : i \in lo..hi}

\* Every Subtree by which sym derives toks.
TreesOf(g, sym, toks) ==
    IF sym \in g.terminals
    THEN (IF Len(toks) = 1 /\ Matches(sym, toks[1]) THEN {Leaf(sym, toks[1])} ELSE {})
    ELSE UNION {{Node(Signature(r), kids) : kids \in Derive(g, r[2], toks)} :
                    r \in {x \in g.rules : x[1] = sym}}

\* earlgrey::all_trees over a successful parse: every derivation of the
\* whole token stream from the start symbol.
all_trees(g, toks) == TreesOf(g, g.start, toks)

---------------------------------------------------------------------------
(* The tree evaluator.  Each function returns its value, or the panic or   *)
(* the endless search that ends the evaluation in its place.               *)

\* subn[i] (0-based); indexing past the end panics.
Sub(subn, i) ==
    IF i < Len(subn) THEN subn[i + 1]
    ELSE [kind |-> "Missing", spec |-> "", lexeme |-> "", subn |-> <<>>]

\* A value of the evaluator that is no Range: an integer, a (count, grain)
\* pair, a sequence.
IntVal(n)        == [tag |-> "Int", n |-> n]
Duration(n, g) == [tag |-> "Duration", n |-> n, grain |-> g]
SeqOf(q)      == [tag |-> "Seq", s |-> q]

\* Evaluation in program order: F applied to the value r, or r itself when r
\* is a failure; with two values, the first failure in order.
Bind(r, F(_)) == IF Failed(r) THEN r ELSE F(r)
Bind2(r1, r2, F(_, _)) == IF Failed(r1) THEN r1 ELSE IF Failed(r2) THEN r2 ELSE F(r1, r2)

\* xtract!: the panic for a subtree of the other kind.
BadXtract(n) ==
    IF n.kind = "Missing" THEN Panic("index out of bounds") ELSE Panic("Bad xtract")

\* Option::unwrap
Unwrap(o, F(_)) ==
    IF o = <<>> THEN Panic("called Option::unwrap() on a None value") ELSE F(o[1])

num(n) ==
    IF n.kind # "Leaf" THEN BadXtract(n)
    ELSE CASE n.spec = "<ordinal>" ->
                Unwrap(OrElse(ordinal(n.lexeme), short_ordinal(n.lexeme)), IntVal)
           [] n.spec \in {"<year>", "<number>"} -> Unwrap(i32_from_str(n.lexeme), IntVal)
           [] OTHER -> Panic("Unknown sym")

RECURSIVE seq(_)
seq(n) ==
    IF n.kind = "Leaf" THEN
        CASE n.spec = "<day-of-week>" ->
                Unwrap(weekday(n.lexeme), LAMBDA dow : SeqOf(day_of_week(dow)))
          [] n.spec = "<named-month>" ->
                Unwrap(k_month(n.lexeme), LAMBDA moy : SeqOf(month_of_year(moy)))
          [] n.spec = "<day-of-month>" ->
                Unwrap(OrElse(ordinal(n.lexeme), short_ordinal(n.lexeme)),
                       LAMBDA dom : SeqOf(nthof(dom, day, month)))
          [] OTHER -> Panic("Unknown sym")
    ELSE IF n.kind # "Node" THEN BadXtract(n)
    ELSE
        CASE n.spec \in {"<named-seq> -> <named-month>", "<named-seq> -> <day-of-week>",
                         "<named-seq> -> <day-of-month>", "<cycle> -> <duration>",
                         "<cycle> -> <named-seq>", "<intersect> -> <cycle>"} ->
                seq(Sub(n.subn, 0))
          [] n.spec = "<duration> -> days?" -> SeqOf(day)
          [] n.spec = "<duration> -> weeks?" -> SeqOf(week)
          [] n.spec = "<duration> -> months?" -> SeqOf(month)
          [] n.spec = "<duration> -> quarters?" -> SeqOf(quarter)
          [] n.spec = "<duration> -> years?" -> SeqOf(year)
          [] n.spec = "<cycle> -> weekends?" -> SeqOf(weekend)
          [] n.spec = "<intersect> -> <intersect> <cycle>" ->
                Bind2(seq(Sub(n.subn, 0)), seq(Sub(n.subn, 1)),
                      LAMBDA a, b : SeqOf(intersect(a.s, b.s)))
          [] OTHER -> Panic("Unknown [seq] spec")

semi_seq(aseq, n) ==
    IF n.kind # "Node" THEN BadXtract(n)
    ELSE
        CASE n.spec = "<nth> -> <the> <ordinal> <cycle> (of|in)" ->
                Bind2(num(Sub(n.subn, 1)), seq(Sub(n.subn, 2)),
                      LAMBDA k, w : SeqOf(nthof(k.n, w.s, aseq)))
          [] n.spec = "<nth> -> <the> last <cycle> (of|in)" ->
                Bind(seq(Sub(n.subn, 2)), LAMBDA w : SeqOf(lastof(1, w.s, aseq)))
          [] OTHER -> Panic("Unknown [semi_seq] spec")

seq_from_grain(g) ==
    CASE g = "Day" -> day
      [] g = "Week" -> week
      [] g = "Month" -> month
      [] g = "Quarter" -> quarter
      [] g = "Year" -> year

\* kronos::this / kronos::next over a sequence the evaluator built.
this_of(q, reftime) == Bind(q, LAMBDA v : this(v.s, reftime))
next_of(q, n, reftime) == Bind(q, LAMBDA v : next(v.s, n, reftime))

calc_duration(reftime, n) ==
    IF n.kind # "Node" THEN BadXtract(n)
    ELSE
        CASE n.spec = "<n-duration> -> a <duration>" ->
                Bind(this_of(seq(Sub(n.subn, 1)), reftime),
                     LAMBDA r : Duration(1, r.grain))
          [] n.spec = "<n-duration> -> <number> <duration>" ->
                Bind2(num(Sub(n.subn, 0)), this_of(seq(Sub(n.subn, 1)), reftime),
                      LAMBDA k, r : Duration(k.n, r.grain))
          [] OTHER -> Panic("Unknown [n-duration] spec")

\* -n on an i32: with overflow checks a panic at i32::MIN, without them i32::MIN.
Negate(n) ==
    IF n # MinI32 THEN IntVal(0 - n)
    ELSE IF build = "debug" THEN Panic("attempt to negate with overflow")
    ELSE IntVal(MinI32)

\* "<range> -> today"
eval_range_today(reftime, subn) == this(day, reftime)
\* "<range> -> tomorrow"
eval_range_tomorrow(reftime, subn) == next(day, 1, reftime)
\* The year case resolved like a cycle: the year the reference instant is in.
eval_range_year_of_reftime(reftime, subn) == this(year, reftime)
\* "<range> -> <year>"
eval_range_year(reftime, subn) == Bind(num(Sub(subn, 0)), LAMBDA y : a_year(y.n))
\* "<range> -> <named-seq>"
eval_range_named_seq(reftime, subn) == this_of(seq(Sub(subn, 0)), reftime)
\* "<range> -> <the> <day-of-month>"
eval_range_the_dom(reftime, subn) == this_of(seq(Sub(subn, 1)), reftime)
\* "<range> -> this <cycle>"
eval_range_this(reftime, subn) == this_of(seq(Sub(subn, 1)), reftime)
\* "<range> -> <the> next <cycle>"
eval_range_next(reftime, subn) == next_of(seq(Sub(subn, 2)), 1, reftime)
\* The occurrence after next taken for the next one.
eval_range_after_next_first(reftime, subn) == next_of(seq(Sub(subn, 1)), 1, reftime)
\* "<range> -> <the> <cycle> after next"
eval_range_after_next(reftime, subn) == next_of(seq(Sub(subn, 1)), 2, reftime)
\* "<range> -> <intersect> <year>"
eval_range_intersect_year(reftime, subn) ==
    Bind2(num(Sub(subn, 1)), seq(Sub(subn, 0)),
          LAMBDA y, q : this(q.s, a_year(y.n).start))
\* "<range> -> <intersect> <cycle>"
eval_range_intersect_cycle(reftime, subn) ==
    Bind2(seq(Sub(subn, 0)), seq(Sub(subn, 1)),
          LAMBDA a, b : this(intersect(a.s, b.s), reftime))
\* "<range> -> <the> <day-of-month> of <range>"; inner is eval_range(reftime, &subn[3])
eval_range_dom_of(reftime, subn, inner) ==
    Bind(inner, LAMBDA r : this_of(seq(Sub(subn, 1)), r.start))
\* "<range> -> in <n-duration>"
eval_range_in(reftime, subn) ==
    Bind2(calc_duration(reftime, Sub(subn, 1)), this(day, reftime),
          LAMBDA dur, today : shift(today, dur.n, dur.grain))
\* "<range> -> <n-duration> ago"
eval_range_ago(reftime, subn) ==
    Bind2(calc_duration(reftime, Sub(subn, 0)), this(day, reftime),
          LAMBDA dur, today :
              Bind(Negate(dur.n), LAMBDA back : shift(today, back.n, dur.grain)))
\* The shift applied to the inner range itself, not to the day it starts in.
eval_range_after_inner(reftime, subn, inner) ==
    Bind2(calc_duration(reftime, Sub(subn, 0)), inner,
          LAMBDA dur, r : shift(r, dur.n, dur.grain))
\* "<range> -> <n-duration> after <range>"; inner is eval_range(reftime, &subn[2])
eval_range_after(reftime, subn, inner) ==
    Bind2(calc_duration(reftime, Sub(subn, 0)), inner,
          LAMBDA dur, r :
              Bind(this(day, r.start),
                   LAMBDA basetime : shift(basetime, dur.n, dur.grain)))
\* The shift without the negation of the count.
eval_range_before_forward(reftime, subn, inner) ==
    Bind2(calc_duration(reftime, Sub(subn, 0)), inner,
          LAMBDA dur, r :
              Bind(this(day, r.start),
                   LAMBDA basetime : shift(basetime, dur.n, dur.grain)))
\* "<range> -> <n-duration> before <range>"; inner is eval_range(reftime, &subn[2])
eval_range_before(reftime, subn, inner) ==
    Bind2(calc_duration(reftime, Sub(subn, 0)), inner,
          LAMBDA dur, r :
              Bind2(this(day, r.start), Negate(dur.n),
                    LAMBDA basetime, back : shift(basetime, back.n, dur.grain)))
\* The selection anchored at the caller's reference instant.
eval_range_nth_range_at_reftime(reftime, subn, inner) ==
    Bind(inner,
         LAMBDA r : this_of(semi_seq(seq_from_grain(r.grain), Sub(subn, 0)), reftime))
\* "<range> -> <nth> <range>"; inner is eval_range(reftime, &subn[1])
eval_range_nth_range(reftime, subn, inner) ==
    Bind(inner,
         LAMBDA r : this_of(semi_seq(seq_from_grain(r.grain), Sub(subn, 0)), r.start))
\* "<range> -> <nth> <the> <duration>"
eval_range_nth_duration(reftime, subn) ==
    Bind(seq(Sub(subn, 2)),
         LAMBDA within : this_of(semi_seq(within.s, Sub(subn, 0)), reftime))

\* The child a rule evaluates with a recursive eval_range; -1 for a rule without.
inner_range(spec) ==
    CASE spec = "<range> -> <the> <day-of-month> of <range>" -> 3
      [] spec \in {"<range> -> <n-duration> after <range>",
                   "<range> -> <n-duration> before <range>"} -> 2
      [] spec = "<range> -> <nth> <range>" -> 1
      [] OTHER -> 0 - 1

\* The match of eval_range; inner is the rule's recursive eval_range, which
\* only the cases that have one look at.
eval_range_match(reftime, spec, subn, inner) ==
    CASE spec = "<range> -> today" -> eval_range_today(reftime, subn)
      [] spec = "<range> -> tomorrow" -> eval_range_tomorrow(reftime, subn)
      [] spec = "<range> -> <year>" -> eval_range_year(reftime, subn)
      [] spec = "<range> -> <named-seq>" -> eval_range_named_seq(reftime, subn)
      [] spec = "<range> -> <the> <day-of-month>" -> eval_range_the_dom(reftime, subn)
      [] spec = "<range> -> this <cycle>" -> eval_range_this(reftime, subn)
      [] spec = "<range> -> <the> next <cycle>" -> eval_range_next(reftime, subn)
      [] spec = "<range> -> <the> <cycle> after next" ->
            eval_range_after_next(reftime, subn)
      [] spec = "<range> -> <intersect> <year>" ->
            eval_range_intersect_year(reftime, subn)
      [] spec = "<range> -> <intersect> <cycle>" ->
            eval_range_intersect_cycle(reftime, subn)
      [] spec = "<range> -> <the> <day-of-month> of <range>" ->
            eval_range_dom_of(reftime, subn, inner)
      [] spec = "<range> -> in <n-duration>" -> eval_range_in(reftime, subn)
      [] spec = "<range> -> <n-duration> ago" -> eval_range_ago(reftime, subn)
      [] spec = "<range> -> <n-duration> after <range>" ->
            eval_range_after(reftime, subn, inner)
      [] spec = "<range> -> <n-duration> before <range>" ->
            eval_range_before(reftime, subn, inner)
      [] spec = "<range> -> <nth> <range>" -> eval_range_nth_range(reftime, subn, inner)
      [] spec = "<range> -> <nth> <the> <duration>" ->
            eval_range_nth_duration(reftime, subn)
      [] OTHER -> Panic("Unknown [eval] spec")

RECURSIVE eval_range(_, _)
eval_range(reftime, n) ==
    IF n.kind # "Node" THEN BadXtract(n)
    ELSE eval_range_match(reftime, n.spec, n.subn,
                          IF inner_range(n.spec) < 0 THEN NoResult
                          ELSE eval_range(reftime, Sub(n.subn, inner_range(n.spec))))

\* The skip that drops the occurrence starting at the lower boundary too.
skip_through(x, lower) == x.start <= lower
\* The predicates of the skip_while and the take_while of eval_timediff.
skip_before(x, lower) == x.start < lower
take_before(x, upper) == x.start < upper

\* s(anchor).skip_while(|x| x.start < lower).take_while(|x| x.start < upper).count()
count_between(q, anchor, lower, upper) ==
    LET skip(x) == skip_before(x, lower)
        take(x) == take_before(x, upper)
    IN  \* the iterator as far as the first element take_while refuses
        Len(TakeWhile(SkipWhile(Prefix(q, anchor, Max({lower, upper}) + 1), skip), take))

\* The match of eval_timediff; r2 and r4 are eval_range(reftime, &subn[2]) and
\* eval_range(reftime, &subn[4]).
eval_timediff_match(reftime, spec, subn, r2, r4) ==
    CASE spec = "<timediff> -> <cycle> until <range>" ->
            Bind2(r2, seq(Sub(subn, 0)),
                  LAMBDA target, q :
                      Count(count_between(q.s, reftime, reftime, target.start)))
      [] spec \in {"<timediff> -> <cycle> from <range> to <range>",
                   "<timediff> -> <cycle> between <range> and <range>"} ->
            Bind2(r2, r4,
                  LAMBDA t0, t1 :
                      Bind(seq(Sub(subn, 0)),
                           LAMBDA q : Count(count_between(q.s, t0.start,
                                                          t0.start, t1.start))))
      [] OTHER -> Panic("Unknown [timediff] spec")

eval_timediff(reftime, n) ==
    IF n.kind # "Node" THEN BadXtract(n)
    ELSE eval_timediff_match(reftime, n.spec, n.subn,
                             eval_range(reftime, Sub(n.subn, 2)),
                             eval_range(reftime, Sub(n.subn, 4)))

---------------------------------------------------------------------------
(* TimeMachine.                                                            *)

\* TimeMachine::new
TimeMachine_new == build_grammar

\* The ambiguity test off by one: two derivations pass it.
Ambiguous_above_two(trees) == Cardinality(trees) > 2

\* trees.len() > 1
Ambiguous(trees) == Cardinality(trees) > 1

\* The match of TimeMachine::eval on the root of the one derivation.
eval_tree(t0, tree) ==
    IF tree.kind # "Node" THEN BadXtract(tree)
    ELSE CASE tree.spec = "<S> -> <range>" -> eval_range(t0, Sub(tree.subn, 0))
           [] tree.spec = "<S> -> <timediff>" -> eval_timediff(t0, Sub(tree.subn, 0))
           [] OTHER -> Error("Bad time expr")

\* TimeMachine::eval once the parser has produced the derivations.
eval_trees(t0, trees) ==
    IF trees = {} THEN Error("Parse errror")
    ELSE IF Ambiguous(trees) THEN Error("Ambibuous parse")
    ELSE eval_tree(t0, CHOOSE x \in trees : TRUE)

\* TimeMachine::eval over the parser g
TimeMachine_eval(g, t0, time) == eval_trees(t0, all_trees(g, Tokenize(time)))

\* TimeMachine::parse once the parser has run: the derivations, or a panic
parse_trees(trees) ==
    IF trees = {} THEN Panic("failed to parse time expr")
    ELSE Value("trees", Cardinality(trees))

\* TimeMachine::parse over the parser g
TimeMachine_parse(g, time) == parse_trees(all_trees(g, Tokenize(time)))

---------------------------------------------------------------------------
(* shunting: the arithmetic context and its two evaluators of an RPNExpr.  *)
(* An f64 is the term of the operations that produced it: two values are   *)
(* the same when the same operations were applied to the same operands in  *)
(* the same order.                                                         *)

Num(n) == [op |-> "num", n |-> n, args |-> <<>>]
Apply(op, args) == [op |-> op, n |-> 0, args |-> args]

\* Result<_, String>, and a panic that unwinds out of the call
Ok(v) == [tag |-> "Ok", v |-> v, msg |-> <<>>]
Err(m) == [tag |-> "Err", v |-> Num(0), msg |-> m]
Panicked(m) == [tag |-> "Panic", v |-> Num(0), msg |-> m]
NoValue == [tag |-> "None", v |-> Num(0), msg |-> <<>>]

\* MathOp: a number, or a closure kept as what calling it returns
Number(x) == [kind |-> "Number", out |-> Ok(x)]
Dynamic(f) == [kind |-> "Dynamic", out |-> f]

\* MathOp::eval: f().unwrap() panics when the closure returns Err
MathOp_eval(mathop) ==
    IF mathop.kind = "Number" THEN mathop.out
    ELSE IF mathop.out.tag = "Ok" THEN mathop.out
    ELSE Panicked(<<"called Result::unwrap() on an Err value">>)

\* MathContext::new
MathContext_new ==
    [v \in {"pi", "e"} |-> Number(Apply(v, <<>>))]

\* MathContext::setvar
setvar(vars0, name, value) ==
    [v \in DOMAIN vars0 \cup {name} |-> IF v = name THEN value ELSE vars0[v]]

\* MathToken as the evaluators match it: Number(n), Variable(s), BOp(s), UOp(s),
\* Function(s, n), and the kinds neither evaluator has an arm for
Token(kind, s, n) == [kind |-> kind, s |-> s, n |-> n]

\* The binary and unary operators both evaluators know
BOps == {"+", "-", "*", "/", "%", "^", "**"}
UOps == {"-", "!"}
bop(op, lhs, rhs) ==
    Apply(IF op \in {"^", "**"} THEN "powf" ELSE op, <<lhs, rhs>>)
tgamma1(x) == Apply("tgamma", <<Apply("+", <<x, Num(1)>>)>>)
uop(op, arg) ==
    IF op = "-" THEN Apply("neg", <<arg>>) ELSE tgamma1(arg)

\* mod funcs
combinations(n, r) ==
    Apply("/", <<Apply("/", <<tgamma1(n), tgamma1(r)>>), tgamma1(Apply("-", <<n, r>>))>>)
multicombinations(n, r) ==
    Apply("/", <<Apply("/", <<Apply("tgamma", <<Apply("+", <<n, r>>)>>), tgamma1(r)>>),
                 Apply("tgamma", <<n>>)>>)
permutations(n, r) ==
    Apply("/", <<tgamma1(n), tgamma1(Apply("-", <<n, r>>))>>)

\* eval_fn
eval_fn(fname, args) ==
    CASE fname \in {"abs", "cos", "log", "sin"} /\ Len(args) = 1 ->
            Ok(Apply(IF fname = "log" THEN "log10" ELSE fname, args))
      [] fname = "atan2" /\ Len(args) = 2 -> Ok(Apply("atan2", args))
      [] fname \in {"max", "min"} /\ Len(args) > 0 -> Ok(Apply(fname, <<args[1]>> \o args))
      [] fname = "nCr" /\ Len(args) = 2 -> Ok(combinations(args[1], args[2]))
      [] fname = "nMCr" /\ Len(args) = 2 -> Ok(multicombinations(args[1], args[2]))
      [] fname = "nMPr" /\ Len(args) = 2 -> Ok(Apply("powf", args))
      [] fname = "nPr" /\ Len(args) = 2 -> Ok(permutations(args[1], args[2]))
      [] OTHER -> Err(<<"Unknown Function: ", fname, " with ", ToString(Len(args)), " args">>)

\* One turn of a loop over the tokens: go on with a stack, or return
Continue(stack) == [tag |-> "Continue", stack |-> stack, ret |-> NoValue]
Return(r) == [tag |-> "Return", stack |-> <<>>, ret |-> r]
Front(stack, k) == SubSeq(stack, 1, Len(stack) - k)
Back(stack, k) == SubSeq(stack, Len(stack) - k + 1, Len(stack))

\* MathContext::eval, the body of its loop for one token
eval_token(vars0, token, operands) ==
    CASE token.kind = "Number" -> Continue(Append(operands, Num(token.n)))
      [] token.kind = "Variable" ->
            IF token.s \in DOMAIN vars0
            THEN IF MathOp_eval(vars0[token.s]).tag = "Ok"
                 THEN Continue(Append(operands, MathOp_eval(vars0[token.s]).v))
                 ELSE Return(MathOp_eval(vars0[token.s]))
            ELSE Return(Err(<<"Unknown Variable: ", token.s>>))
      [] token.kind = "BOp" ->
            IF Len(operands) < 2 THEN Return(Err(<<"Missing operands">>))
            ELSE IF token.s \in BOps
            THEN Continue(Append(Front(operands, 2),
                                 bop(token.s, Back(operands, 2)[1], Back(operands, 2)[2])))
            ELSE Return(Err(<<"Unknown BOp: ", token.s>>))
      [] token.kind = "UOp" ->
            IF Len(operands) < 1 THEN Return(Err(<<"Missing operands">>))
            ELSE IF token.s \in UOps
            THEN Continue(Append(Front(operands, 1), uop(token.s, Back(operands, 1)[1])))
            ELSE Return(Err(<<"Unknown UOp: ", token.s>>))
      [] token.kind = "Function" ->
            IF token.n > Len(operands)
            THEN Return(Err(<<"Missing args for function ", token.s>>))
            ELSE IF eval_fn(token.s, Back(operands, token.n)).tag = "Ok"
            THEN Continue(Append(Front(operands, token.n),
                                 eval_fn(token.s, Back(operands, token.n)).v))
            ELSE Return(eval_fn(token.s, Back(operands, token.n)))
      [] OTHER -> Return(Err(<<"Unexpected token for RPN eval: ", token.kind>>))

RECURSIVE eval_loop(_, _, _, _)
eval_loop(vars0, tokens, i, operands) ==
    IF i > Len(tokens)
    THEN IF operands = <<>> THEN Err(<<"Failed to eval RPN">>)
         ELSE Ok(operands[Len(operands)])
    ELSE IF eval_token(vars0, tokens[i], operands).tag = "Return"
    THEN eval_token(vars0, tokens[i], operands).ret
    ELSE eval_loop(vars0, tokens, i + 1, eval_token(vars0, tokens[i], operands).stack)

\* MathContext::eval
MathContext_eval(vars0, tokens) == eval_loop(vars0, tokens, 1, <<>>)

\* The closures compile builds, as what a call of them returns.  An operator
\* the match does not know returns Err before an operand is evaluated.
Panics(ops) == {i \in 1..Len(ops) : MathOp_eval(ops[i]).tag = "Panic"}
Values(ops) == [i \in 1..Len(ops) |-> MathOp_eval(ops[i]).v]
bop_closure(op, lhs, rhs) ==
    IF op \notin BOps THEN Err(<<"Unknown BOp: ", op>>)
    ELSE IF Panics(<<lhs, rhs>>) # {} THEN MathOp_eval(<<lhs, rhs>>[Min(Panics(<<lhs, rhs>>))])
    ELSE Ok(bop(op, MathOp_eval(lhs).v, MathOp_eval(rhs).v))
uop_closure(op, arg) ==
    IF op \notin UOps THEN Err(<<"Unknown UOp: ", op>>)
    ELSE IF MathOp_eval(arg).tag = "Panic" THEN MathOp_eval(arg)
    ELSE Ok(uop(op, MathOp_eval(arg).v))
fn_closure(fname, args) ==
    IF Panics(args) # {} THEN MathOp_eval(args[Min(Panics(args))])
    ELSE eval_fn(fname, Values(args))

\* What compile pushes for a closure: the closure itself when an operand is
\* not a number, else the number it returns now (or its Err, by `?`)
AllNumbers(ops) == \A i \in 1..Len(ops) : ops[i].kind = "Number"
push_closure(stack, ops, f) ==
    IF ~AllNumbers(ops) THEN Continue(Append(stack, Dynamic(f)))
    ELSE IF f.tag = "Ok" THEN Continue(Append(stack, Number(f.v)))
    ELSE Return(f)

\* MathContext::compile, the body of its loop for one token
compile_token(vars0, token, stack) ==
    CASE token.kind = "Number" -> Continue(Append(stack, Number(Num(token.n))))
      [] token.kind = "Variable" ->
            IF token.s \in DOMAIN vars0 THEN Continue(Append(stack, vars0[token.s]))
            ELSE Return(Err(<<"Unknown variable: ", token.s>>))
      [] token.kind = "BOp" ->
            IF Len(stack) < 2 THEN Return(Err(<<"Missing operands for ", token.s>>))
            ELSE push_closure(Front(stack, 2), Back(stack, 2),
                              bop_closure(token.s, Back(stack, 2)[1], Back(stack, 2)[2]))
      [] token.kind = "UOp" ->
            IF Len(stack) < 1 THEN Return(Err(<<"Missing operands for ", token.s>>))
            ELSE push_closure(Front(stack, 1), Back(stack, 1),
                              uop_closure(token.s, Back(stack, 1)[1]))
      [] token.kind = "Function" ->
            IF token.n > Len(stack) THEN Return(Err(<<"Missing args for ", token.s>>))
            ELSE push_closure(Front(stack, token.n), Back(stack, token.n),
                              fn_closure(token.s, Back(stack, token.n)))
      [] OTHER -> Return(Err(<<"Unexpected token for RPN compile: ", token.kind>>))

RECURSIVE compile_loop(_, _, _, _)
compile_loop(vars0, tokens, i, stack) ==
    IF i > Len(tokens)
    THEN IF Len(stack) # 1
         THEN Panicked(<<"assertion failed: (left == right)", ToString(Len(stack)), "1">>)
         ELSE Ok(stack[1])
    ELSE IF compile_token(vars0, tokens[i], stack).tag = "Return"
    THEN compile_token(vars0, tokens[i], stack).ret
    ELSE compile_loop(vars0, tokens, i + 1, compile_token(vars0, tokens[i], stack).stack)

\* MathContext::compile
MathContext_compile(vars0, tokens) == compile_loop(vars0, tokens, 1, <<>>)

---------------------------------------------------------------------------
(* One TimeMachine and its caller.  A call is started, runs, and ends by   *)
(* returning, by a panic that unwinds out of it, or not at all.            *)

Builds == {"debug", "release"}
NoCall == [op |-> "", t0 |-> 0, time |-> <<>>]

\* What the running call computes.
Outcome(g, c) ==
    IF c.op = "eval" THEN TimeMachine_eval(g, c.t0, c.time)
    ELSE TimeMachine_parse(g, c.time)

\* A call that uses up a rule of the grammar it parses with.
parser_after_losing_rule(g, c) ==
    [g EXCEPT !.rules = g.rules \ {Rule("<range>", <<"today">>)}]

\* eval and parse take &self: the parser after a call is the parser before it.
parser_after(g, c) == g

Init ==
    /\ parser = TimeMachine_new
    /\ build \in Builds
    /\ pc = "idle"
    /\ call = NoCall
    /\ result = NoResult
    /\ spin = 0
    /\ log = <<>>
    /\ cx = MathContext_new
    /\ rpn = <<>>
    /\ evaluated = NoValue
    /\ compiled = NoValue
    /\ opvalue = NoValue

\* The caller starts tm.eval(t0, time) or tm.parse(time).
Call(inputs) ==
    /\ pc = "idle"
    /\ result = NoResult
    /\ \E c \in inputs :
          call' = [op |-> c[1], t0 |-> c[2], time |-> c[3]]
    /\ pc' = "running"
    /\ UNCHANGED <<parser, build, result, spin, log>>
    /\ UNCHANGED mathvars

\* How a call that computes r ends.  keep is how many finished calls the
\* history records.
Land(r, keep) ==
    CASE r.tag = "Panic" ->
            /\ pc' = "panicked"
            /\ result' = r
            /\ UNCHANGED <<parser, spin, log>>
      [] r.tag = "Hang" ->
            /\ pc' = "searching"
            /\ UNCHANGED <<parser, result, spin, log>>
      [] OTHER ->
            /\ pc' = "idle"
            /\ result' = r
            /\ parser' = parser_after(parser, call)
            /\ log' = IF Len(log) < keep
                      THEN Append(log, [call |-> call, result |-> r])
                      ELSE log
            /\ UNCHANGED spin

\* The running call takes its course.
Finish(keep) ==
    /\ pc = "running"
    /\ Land(Outcome(parser, call), keep)
    /\ UNCHANGED <<build, call>>
    /\ UNCHANGED mathvars

\* A search for an occurrence that does not exist goes on, or reaches the last
\* date chrono has.
Search ==
    /\ pc = "searching"
    /\ \/ /\ spin' = (spin + 1) % SpinMod
          /\ UNCHANGED <<pc, result>>
       \/ /\ pc' = "panicked"
          /\ result' = Panic("date out of range")
          /\ UNCHANGED spin
    /\ UNCHANGED <<parser, build, call, log>>
    /\ UNCHANGED mathvars

\* The caller takes the result and is ready for its next call.
Take ==
    /\ pc = "idle"
    /\ result # NoResult
    /\ result' = NoResult
    /\ call' = NoCall
    /\ UNCHANGED <<parser, build, pc, spin, log>>
    /\ UNCHANGED mathvars

---------------------------------------------------------------------------
(* Inputs.                                                                 *)

\* The words of ws with one space between neighbours.
Words(ws) ==
    [i \in 1..(2 * Len(ws) - 1) |-> IF i % 2 = 1 THEN ws[(i + 1) \div 2] ELSE " "]

\* Reference instants: every tick of the given days.
Instants(days) == {Midnight(z) + k : z \in days, k \in 0..(TicksPerDay - 1)}

DurationWords == {"days", "week", "months", "quarter", "years"}
Numbers == {ToString(n) : n \in 1..MaxN}

RefDays == {DaysFromCivil(2016, 9, 5), DaysFromCivil(2016, 10, 29),
            DaysFromCivil(2017, 1, 31)}

RangePhrases ==
    { <<"today">>, <<"tomorrow">>, <<"1000">>, <<"2002">>, <<"2016">>, <<"2100">>,
      <<"monday">>, <<"feb">>,
      <<"the", "12th">>, <<"this", "march">>, <<"this", "weekend">>,
      <<"next", "week">>, <<"the", "next", "month">>, <<"tue", "after", "next">>,
      <<"the", "quarter", "after", "next">>, <<"feb", "27th">>,
      <<"friday", "18th">>, <<"27th", "feb", "1984">>, <<"the", "18th", "of", "june">>,
      <<"the", "3rd", "mon", "of", "june">>, <<"3rd", "day", "of", "the", "month">>,
      <<"last", "day", "of", "feb">>, <<"the", "last", "weekend", "in", "the", "year">>,
      <<"2nd", "thu", "of", "sep", "2014">>,
      <<"the", "2nd", "day", "of", "the", "3rd", "week", "of", "1987">> }

ShiftPhrases ==
    {<<"in", n, u>> : n \in Numbers \cup {"a"}, u \in DurationWords}
    \cup {<<n, u, "ago">> : n \in Numbers, u \in DurationWords}
    \cup {<<"a", u, "after", "feb", "14th">> : u \in DurationWords}
    \cup {<<n, "weeks", "before", "tomorrow">> : n \in Numbers}
    \cup {<<"a", "day", "after", "this", "weekend">>,
          <<"0", "days", "ago">>, <<"-1", "month", "ago">>}

TimediffPhrases ==
    { <<"days", "until", "tomorrow">>, <<"months", "until", "2018">>,
      <<"weekends", "until", "jan">>, <<"mon", "from", "today", "to", "dec">>,
      <<"weeks", "between", "tomorrow", "and", "today">> }

\* Texts the grammar rejects, and texts it derives in two ways.
RejectedPhrases ==
    {<<>>, <<"xyzzy">>, <<"yesterday">>, <<"next">>, <<"32nd">>, <<"999">>, <<"2101">>}
AmbiguousPhrases == {<<"12th">>, <<"a", "day", "after", "3rd">>, <<"3rd", "of", "3rd">>}
\* Counts at the ends of i32.
ExtremePhrases ==
    { <<"-2147483648", "days", "ago">>, <<"2147483647", "years", "ago">>,
      <<"in", "2147483647", "days">>, <<"-2147483648", "weeks", "before", "today">> }
\* Sequences with no occurrence at all.
EmptyPhrases == {<<"mon", "tue">>, <<"feb", "30th">>, <<"days", "until", "feb", "30th">>}

Phrases == RangePhrases \cup ShiftPhrases \cup TimediffPhrases \cup RejectedPhrases
           \cup AmbiguousPhrases \cup ExtremePhrases \cup EmptyPhrases

Texts == {Words(p) : p \in Phrases}
         \cup {<<"mon", ",", " ", "feb", " ", "27th">>, <<" ", "today", " ">>, <<",">>}

Inputs == {<<"eval", t, x>> : t \in Instants(RefDays), x \in Texts}
          \cup {<<"parse", 0, Words(p)>> : p \in {<<"the", "12th">>, <<"12th">>, <<"xyzzy">>}}

Next == Call(Inputs) \/ Finish(0) \/ Search \/ Take
Spec == Init /\ [][Next]_vars

---------------------------------------------------------------------------
(* Properties of TimeMachine::eval.                                        *)

\* The eval call of this state has returned to its caller.
Returned == call.op = "eval" /\ pc = "idle" /\ result # NoResult
\* How many derivations the grammar has for the text of this state's call.
Derivations == Cardinality(all_trees(build_grammar, Tokenize(call.time)))

\* C1: no panic escapes an eval call, whatever the instant and the text: the
\* call never ends by unwinding.
NoPanicEscapes == ~(call.op = "eval" /\ pc = "panicked")

\* C2: an eval call on a text with two or more derivations ends only by
\* returning Time::Error: it returns no Range and no Count, and no evaluation
\* of a derivation makes it panic.
AmbiguityRejected ==
    (call.op = "eval" /\ Derivations >= 2) =>
        /\ pc # "panicked"
        /\ result # NoResult => result.tag = "Error"
\* An eval call on a text with two derivations has returned Time::Error.
AmbiguousTextReturned == Returned /\ Derivations = 2 /\ result.tag = "Error"

\* C3: a returned Error carries "parse error" when the grammar does not accept
\* the tokens and "ambiguous parse" when it has two or more derivations.
ErrorMessagesAsSpecified ==
    (Returned /\ result.tag = "Error") =>
        \/ Derivations = 0 /\ result.msg = "parse error"
        \/ Derivations >= 2 /\ result.msg = "ambiguous parse"

\* The messages of the panics (and the Error) that signal a derivation tree the
\* evaluators have no case for, or a child of another kind than the case expects.
DefectMessages ==
    {"Bad xtract", "index out of bounds", "Unknown sym", "Unknown [seq] spec",
     "Unknown [semi_seq] spec", "Unknown [n-duration] spec", "Unknown [eval] spec",
     "Unknown [timediff] spec", "Bad time expr",
     "called Option::unwrap() on a None value"}

\* C6: no eval call ends in a defect: every node and leaf the evaluators visit in
\* a derivation tree of build_grammar's grammar has a case, and the children the
\* case indexes are there and of the kind it expects.
NoDefectReached == (call.op = "eval" /\ result # NoResult) => result.msg \notin DefectMessages
\* A text with one derivation has been evaluated to a Range or a Count.
DerivationEvaluated == Returned /\ Derivations = 1 /\ result.tag \in {"Range", "Count"}

\* The text of this state's call is one lexeme the <year> terminal admits.
IsYearText ==
    /\ Len(call.time) = 1
    /\ i32_from_str(call.time[1]) # <<>>
    /\ 999 < i32_from_str(call.time[1])[1]
    /\ i32_from_str(call.time[1])[1] < 2101
YearOfText == i32_from_str(call.time[1])[1]

\* C9: for a year lexeme y with 999 < y < 2101, eval returns the Range from
\* January 1st of y to January 1st of y + 1 with grain Year, whatever the
\* reference instant.
YearIsAbsolute ==
    (call.op = "eval" /\ pc # "running" /\ result # NoResult /\ IsYearText) =>
        result = Range(Midnight(DaysFromCivil(YearOfText, 1, 1)),
                       Midnight(DaysFromCivil(YearOfText + 1, 1, 1)), "Year")
\* A year text has been evaluated at an instant that lies outside that year.
YearEvaluatedFromOutside ==
    /\ Returned /\ IsYearText /\ result.tag = "Range"
    /\ YearOf(DayOf(call.t0)) # YearOfText

---------------------------------------------------------------------------
(* eval_timediff: the instants of a returned count.                        *)

TimediffPhrasesAtBoundary ==
    { <<"days", "until", "today">>, <<"mon", "until", "next", "week">>,
      <<"months", "between", "2016", "and", "2017">>,
      <<"days", "from", "today", "to", "tomorrow">>,
      <<"weekends", "from", "this", "weekend", "to", "dec">>,
      <<"12th", "until", "2017">> }
DiffInputs ==
    {<<"eval", t, Words(p)>> : t \in Instants(RefDays),
                               p \in TimediffPhrases \cup TimediffPhrasesAtBoundary}
    \cup {<<"eval", Midnight(DaysFromCivil(2016, 9, 5)),
            Words(<<"days", "until", "feb", "30th">>)>>}
NextDiff == Call(DiffInputs) \/ Finish(0) \/ Search \/ Take
SpecDiff == Init /\ [][NextDiff]_vars

\* How far before the lower boundary the occurrences are listed from, in days.
LookBack == 400

\* The <timediff> node of the one derivation of this state's text, and what it
\* names: the two boundary instants and the sequence.
DiffNode == Sub((CHOOSE x \in all_trees(build_grammar, Tokenize(call.time)) : TRUE).subn, 0)
IsUntil == DiffNode.spec = "<timediff> -> <cycle> until <range>"
DiffLower ==
    IF IsUntil THEN call.t0 ELSE eval_range(call.t0, Sub(DiffNode.subn, 2)).start
DiffUpper ==
    IF IsUntil THEN eval_range(call.t0, Sub(DiffNode.subn, 2)).start
    ELSE eval_range(call.t0, Sub(DiffNode.subn, 4)).start
\* The occurrences of the sequence from well before the lower boundary on.
DiffOccurrences ==
    Prefix(seq(Sub(DiffNode.subn, 0)).s, DiffLower - Midnight(LookBack),
           Max({DiffLower, DiffUpper}) + 1)
StartsIn(occ, from, upto) ==
    Cardinality({i \in 1..Len(occ) : from <= occ[i].start /\ occ[i].start < upto})
StartsWithin(from, upto) == StartsIn(DiffOccurrences, from, upto)

\* C4: a returned Count is the number of occurrences of the sequence that start
\* at or after the lower boundary instant and before the upper one: an occurrence
\* starting exactly at the lower boundary is counted.  It is never negative.
CountsFromLowerBoundary ==
    (Returned /\ result.tag = "Count") =>
        /\ result.count >= 0
        /\ result.count = StartsWithin(DiffLower, DiffUpper)
\* C4 as stated: the occurrences that start strictly after the lower boundary.
CountsStrictlyBetween ==
    (Returned /\ result.tag = "Count") =>
        /\ result.count >= 0
        /\ result.count = StartsWithin(DiffLower + 1, DiffUpper)
\* A count has been returned that includes an occurrence starting exactly at the
\* lower boundary instant.
BoundaryOccurrenceCounted ==
    /\ Returned /\ result.tag = "Count" /\ result.count > 0
    /\ StartsWithin(DiffLower, DiffLower + 1) = 1

---------------------------------------------------------------------------
(* Shifting forth and back.                                                *)

ShiftRefDays ==
    {DaysFromCivil(2016, 1, 28), DaysFromCivil(2016, 1, 31), DaysFromCivil(2016, 2, 29),
     DaysFromCivil(2016, 9, 5)}
ShiftedPhrases == {<<"today">>, <<"tomorrow">>}
\* "n u before n u after R"
RoundTrip(n, u, R) == <<n, u, "before", n, u, "after">> \o R
ShiftInputs ==
    {<<"eval", t, Words(RoundTrip(n, u, R))>> :
        t \in Instants(ShiftRefDays), n \in Numbers, u \in DurationWords,
        R \in ShiftedPhrases}
    \cup {<<"eval", Midnight(DaysFromCivil(2016, 9, 5)),
            Words(RoundTrip("1", "days", <<"feb", "30th">>))>>}
NextShift == Call(ShiftInputs) \/ Finish(0) \/ Search \/ Take
SpecShift == Init /\ [][NextShift]_vars

\* The text of this state's call is "n u before n u after R"; the Range R alone
\* resolves to at the same instant.
IsRoundTrip ==
    /\ call.op = "eval"
    /\ Len(call.time) > 12
    /\ call.time[5] = "before" /\ call.time[11] = "after"
    /\ call.time[1] = call.time[7] /\ call.time[3] = call.time[9]
ShiftedRange ==
    TimeMachine_eval(build_grammar, call.t0, SubSeq(call.time, 13, Len(call.time)))
CoversStartDay(r, x) ==
    /\ r.tag = "Range"
    /\ r.start <= Midnight(DayOf(x.start))
    /\ Midnight(DayOf(x.start) + 1) <= r.end

---------------------------------------------------------------------------
(* One TimeMachine over a history of calls.                                *)

HistInputs ==
    {<<"eval", Midnight(DaysFromCivil(2016, 9, 5)), Words(p)>> :
        p \in {<<"today">>, <<"12th">>, <<"mon", "tue">>}}
    \cup {<<"eval", Midnight(DaysFromCivil(2017, 1, 31)), Words(<<"today">>)>>,
          <<"parse", 0, Words(<<"the", "12th">>)>>}
NextHist == Call(HistInputs) \/ Finish(MaxLog) \/ Search \/ Take
SpecHist == Init /\ [][NextHist]_vars

---------------------------------------------------------------------------
(* Termination.                                                            *)

LivePhrases ==
    EmptyPhrases \cup TimediffPhrases
    \cup {<<"mon", "feb">>, <<"today">>, <<"the", "3rd", "mon", "of", "june">>}
LiveInputs == {<<"eval", t, Words(p)>> : t \in Instants(RefDays), p \in LivePhrases}
NextLive == Call(LiveInputs) \/ Finish(0) \/ Search \/ Take
\* A search is not held up from outside: it takes its steps.
LiveSpec == Init /\ [][NextLive]_vars /\ WF_vars(Search)

\* C5: every eval call of a text with one derivation returns in the end, also
\* one that has to search for an occurrence of a sequence that has none.
EveryCallReturns == (call.op = "eval" /\ pc = "searching") ~> Returned

---------------------------------------------------------------------------
(* this, next and after next of a cycle.                                   *)

CycleWords == {"day", "weeks", "month", "quarter", "years", "weekend",
               "monday", "tue", "march", "3rd", "12th", "31st"}
CyclePhrases ==
    UNION {{<<"this", c>>, <<"next", c>>, <<"the", "next", c>>, <<c, "after", "next">>} :
              c \in CycleWords}
CycleInputs ==
    {<<"eval", t, Words(p)>> : t \in Instants(RefDays), p \in CyclePhrases}
    \cup {<<"eval", Midnight(DaysFromCivil(2016, 9, 5)), Words(<<"mon", "tue">>)>>}
NextCycle == Call(CycleInputs) \/ Finish(0) \/ Search \/ Take
SpecCycle == Init /\ [][NextCycle]_vars

\* How far past the reference instant the occurrences are listed, in days.
CycleAhead == 800

\* The <range> node of the one derivation of this state's text, the form it has
\* and the sequence of its cycle.
CycleRange == Sub((CHOOSE x \in all_trees(build_grammar, Tokenize(call.time)) : TRUE).subn, 0)
CycleForms == {"<range> -> this <cycle>", "<range> -> <the> next <cycle>",
               "<range> -> <the> <cycle> after next"}
CycleSeq ==
    seq(Sub(CycleRange.subn,
            IF CycleRange.spec = "<range> -> <the> next <cycle>" THEN 2 ELSE 1)).s
\* The occurrences of the cycle from well before the reference instant on.
CycleOccurrences ==
    Prefix(CycleSeq, call.t0 - Midnight(LookBack), call.t0 + Midnight(CycleAhead))
StartingFrom(occ, lo) == LET late(x) == x.start >= lo IN SelectSeq(occ, late)
Containing(occ, t) == LET holds(x) == x.start <= t /\ t < x.end IN SelectSeq(occ, holds)
\* The occurrence containing t or, if none does, the first starting at or after t.
ThisOccurrence(occ, t) ==
    IF Containing(occ, t) # <<>> THEN Containing(occ, t)[1] ELSE StartingFrom(occ, t)[1]
\* The same, but for a day-of-month ordinal the first occurrence from the start
\* of the month that holds t on.
ThisOccurrenceInMonth(s, occ, t) ==
    IF s.op = "nthof" THEN StartingFrom(occ, MonthStart(MonthIndex(DayOf(t))))[1]
    ELSE ThisOccurrence(occ, t)
IsCycleCall ==
    Returned /\ result.tag = "Range" /\ Len(call.time) > 1 /\ CycleRange.spec \in CycleForms
ResolvesAs(occ, t, thisocc) ==
    /\ CycleRange.spec = "<range> -> this <cycle>" => result = thisocc
    /\ CycleRange.spec = "<range> -> <the> next <cycle>" =>
          result = StartingFrom(occ, t + 1)[1]
    /\ CycleRange.spec = "<range> -> <the> <cycle> after next" =>
          result = StartingFrom(occ, t + 1)[2]
    /\ thisocc.start <= StartingFrom(occ, t + 1)[1].start
    /\ StartingFrom(occ, t + 1)[1].start < StartingFrom(occ, t + 1)[2].start

\* C11: "next c" is the first occurrence of c starting strictly after t and
\* "c after next" the second; "this c" is the occurrence containing t or, if
\* none does, the first starting at or after t, except that for a day-of-month
\* ordinal it is that day of the month holding t, also when the day is past.
\* start(this c) <= start(next c) < start(c after next).
CycleResolution ==
    IsCycleCall =>
        ResolvesAs(CycleOccurrences, call.t0,
                   ThisOccurrenceInMonth(CycleSeq, CycleOccurrences, call.t0))
\* C11 as stated: "this c" contains t or starts at or after t, for every cycle.
CycleResolutionAsStated ==
    IsCycleCall =>
        ResolvesAs(CycleOccurrences, call.t0, ThisOccurrence(CycleOccurrences, call.t0))
\* "this c" has returned an occurrence that ended before the reference instant.
PastOccurrenceReturned ==
    /\ IsCycleCall /\ CycleRange.spec = "<range> -> this <cycle>"
    /\ result.end <= call.t0

---------------------------------------------------------------------------
(* Bare named sequences and "the Nth".                                     *)

NamedSeqSymbols == {"<named-month>", "<day-of-week>", "<day-of-month>"}
\* The text of this state's call is one named-seq token, or "the" and a
\* day-of-month ordinal; the token.
IsNamedSeqText ==
    /\ call.op = "eval"
    /\ \/ Len(call.time) = 1 /\ \E sym \in NamedSeqSymbols : Matches(sym, call.time[1])
       \/ /\ Len(call.time) = 3 /\ call.time[1] = "the" /\ call.time[2] = " "
          /\ Matches("<day-of-month>", call.time[3])
NamedSeqToken == call.time[Len(call.time)]
\* The sequence the token names.
NamedSeqOf(lexeme) ==
    seq(Leaf(CHOOSE sym \in NamedSeqSymbols : Matches(sym, lexeme), lexeme)).s

\* C12: a bare month name, weekday name or day-of-month ordinal, and "the Nth",
\* evaluate to the Range kronos::this gives for the sequence the token names at
\* the reference instant.
NamedSeqResolved ==
    (IsNamedSeqText /\ pc # "running" /\ result # NoResult) =>
        result = this(NamedSeqOf(NamedSeqToken), call.t0)

---------------------------------------------------------------------------
(* The n-th of a range.                                                    *)

NthPhrases ==
    { <<"the", "3rd", "mon", "of", "june">>, <<"2nd", "week", "in", "august">>,
      <<"1st", "week", "in", "august">>, <<"the", "5th", "mon", "of", "june">>,
      <<"last", "day", "of", "feb">>, <<"the", "last", "weekend", "of", "2017">>,
      <<"2nd", "day", "of", "june", "2014">>, <<"2nd", "thu", "of", "sep", "2014">>,
      <<"10th", "week", "of", "1984">>, <<"30th", "day", "of", "feb">>,
      <<"third", "tuesday", "of", "the", "month", "after", "next">>,
      <<"the", "3rd", "day", "of", "the", "2nd", "week", "of", "may">>,
      <<"the", "2nd", "day", "of", "the", "3rd", "week", "of", "1987">>,
      <<"first", "month", "of", "next", "quarter">> }
NthInputs ==
    {<<"eval", t, Words(p)>> : t \in Instants(RefDays), p \in NthPhrases}
    \cup {<<"eval", Midnight(DaysFromCivil(2016, 9, 5)), Words(<<"mon", "tue">>)>>}
NextNth == Call(NthInputs) \/ Finish(0) \/ Search \/ Take
SpecNth == Init /\ [][NextNth]_vars

\* The words of this state's text (every other token is a space).
CallWords == [i \in 1..((Len(call.time) + 1) \div 2) |-> call.time[2 * i - 1]]
\* The text is "<nth> <range>": its derivation says so.
IsNthOfRange ==
    /\ Returned /\ result.tag = "Range" /\ Len(call.time) > 1
    /\ Sub((CHOOSE x \in all_trees(build_grammar, Tokenize(call.time)) : TRUE).subn, 0).spec
          = "<range> -> <nth> <range>"
\* Where the <nth> ends: its "of" or "in".
NthEnd == Min({i \in 1..Len(CallWords) : CallWords[i] \in {"of", "in"}})
\* The <nth> without its article: <<ordinal or "last", cycle, "of" or "in">>.
NthBody ==
    IF CallWords[1] = "the" THEN SubSeq(CallWords, 2, NthEnd) ELSE SubSeq(CallWords, 1, NthEnd)
\* The Range the inner <range> resolves to at the caller's reference instant.
NthInner ==
    TimeMachine_eval(build_grammar, call.t0,
                     Words(SubSeq(CallWords, NthEnd + 1, Len(CallWords))))
\* The sequence of the cycle the <nth> names.
NthCycle == seq(CHOOSE x \in TreesOf(build_grammar, "<cycle>", <<NthBody[2]>>) : TRUE).s
\* nth_of(K, cycle, U) or last_of(1, cycle, U), U the unit of the inner range's grain.
NthSelection(inner) ==
    IF NthBody[1] = "last" THEN lastof(1, NthCycle, seq_from_grain(inner.grain))
    ELSE nthof(OrElse(ordinal(NthBody[1]), short_ordinal(NthBody[1]))[1], NthCycle,
               seq_from_grain(inner.grain))
NthAnchoredAt(inner) == result = this(NthSelection(inner), inner.start)

\* C13: "<nth> <range>" resolves the inner range at the caller's reference
\* instant and returns the this-occurrence, anchored at the inner range's start,
\* of nth_of(K, cycle, U) or last_of(1, cycle, U), U being the unit sequence of
\* the inner range's grain; at every depth of nesting.
NthOfRangeAnchored == IsNthOfRange => NthAnchoredAt(NthInner)
\* A selection nested in another has returned a Range that lies in another
\* year than the caller's reference instant.
NestedNthReturned ==
    /\ IsNthOfRange
    /\ Cardinality({i \in 1..Len(CallWords) : CallWords[i] \in {"of", "in"}}) = 2
    /\ YearOf(DayOf(result.start)) # YearOf(DayOf(call.t0))

Inside(r, outer) == outer.start <= r.start /\ r.end <= outer.end
\* C14: the Range "<nth> <range>" returns lies inside the Range its inner
\* <range> resolves to.
NthInsideRange == IsNthOfRange => Inside(result, NthInner)

---------------------------------------------------------------------------
(* An intersection and a year.                                             *)

YearPhrases ==
    { <<"27th", "feb", "1984">>, <<"feb", "29th", "2016">>, <<"feb", "29th", "2017">>,
      <<"mon", "feb", "28th", "2017">>, <<"feb", "2017">>, <<"monday", "2016">>,
      <<"31st", "2100">>, <<"weekend", "1987">> }
YearInputs ==
    {<<"eval", t, Words(p)>> : t \in Instants(RefDays), p \in YearPhrases}
    \cup {<<"eval", Midnight(DaysFromCivil(2016, 9, 5)), Words(<<"mon", "tue", "2017">>)>>}
NextYear == Call(YearInputs) \/ Finish(0) \/ Search \/ Take
SpecYear == Init /\ [][NextYear]_vars

\* The text is "<intersect> <year>": its derivation says so; the year it names.
IsIntersectYear ==
    /\ Returned /\ result.tag = "Range" /\ Len(call.time) > 1
    /\ Sub((CHOOSE x \in all_trees(build_grammar, Tokenize(call.time)) : TRUE).subn, 0).spec
          = "<range> -> <intersect> <year>"
NamedYear == i32_from_str(call.time[Len(call.time)])[1]

\* C15: the Range "<intersect> <year>" returns lies inside the named year, from
\* January 1st of y to January 1st of y + 1.
IntersectInsideYear ==
    IsIntersectYear => Inside(result, a_year(NamedYear))

---------------------------------------------------------------------------
(* One MathContext and its caller: variables are set, an expression is     *)
(* evaluated, compiled, and the compiled MathOp is evaluated.              *)

MaxRpnLen == 3

\* A number, and a random variable whose closure returns a value
SetValues == {Number(Num(2)), Dynamic(Ok(Apply("roll", <<>>)))}

RpnTokens ==
    { Token("Number", "", 1), Token("Number", "", 2),
      Token("Variable", "pi", 0), Token("Variable", "x", 0),
      Token("BOp", "-", 0), Token("BOp", "?", 0),
      Token("UOp", "!", 0), Token("UOp", "?", 0),
      Token("Function", "max", 2), Token("Function", "foo", 1),
      Token("OParen", "", 0) }
RECURSIVE SeqsUpTo(_, _)
SeqsUpTo(S, n) ==
    IF n = 0 THEN {<<>>}
    ELSE {<<>>} \cup {<<x>> \o t : x \in S, t \in SeqsUpTo(S, n - 1)}
RpnInputs == SeqsUpTo(RpnTokens, MaxRpnLen)

\* cx.setvar(name, value), between two expressions
SetVar ==
    /\ evaluated.tag = "None"
    /\ \E value \in SetValues : cx' = setvar(cx, "x", value)
    /\ UNCHANGED <<rpn, evaluated, compiled, opvalue>>
    /\ UNCHANGED timevars

\* cx.eval(&rpn)
Evaluate(inputs) ==
    /\ evaluated.tag = "None"
    /\ \E tokens \in inputs :
          /\ rpn' = tokens
          /\ evaluated' = MathContext_eval(cx, tokens)
    /\ UNCHANGED <<cx, compiled, opvalue>>
    /\ UNCHANGED timevars

\* cx.compile(&rpn), of the expression that was evaluated
Compile ==
    /\ evaluated.tag # "None"
    /\ compiled.tag = "None"
    /\ compiled' = MathContext_compile(cx, rpn)
    /\ UNCHANGED <<cx, rpn, evaluated, opvalue>>
    /\ UNCHANGED timevars

\* op.eval(), of the MathOp compile returned
RunOp ==
    /\ compiled.tag = "Ok"
    /\ opvalue.tag = "None"
    /\ opvalue' = MathOp_eval(compiled.v)
    /\ UNCHANGED <<cx, rpn, evaluated, compiled>>
    /\ UNCHANGED timevars

\* The caller is done with the expression (a panic was caught by its caller).
Release ==
    /\ compiled.tag # "None"
    /\ compiled.tag = "Ok" => opvalue.tag # "None"
    /\ rpn' = <<>>
    /\ evaluated' = NoValue
    /\ compiled' = NoValue
    /\ opvalue' = NoValue
    /\ UNCHANGED cx
    /\ UNCHANGED timevars

NextRpn == SetVar \/ Evaluate(RpnInputs) \/ Compile \/ RunOp \/ Release
SpecRpn == Init /\ [][NextRpn]_vars

\* C16: on every token sequence compile returns Ok exactly when eval does, the
\* compiled MathOp then evaluates to the value eval returned, and no call panics.
EvaluatorsAgree ==
    compiled.tag # "None" =>
        /\ evaluated.tag # "Panic"
        /\ compiled.tag # "Panic"
        /\ compiled.tag = "Ok" <=> evaluated.tag = "Ok"
        /\ opvalue.tag # "None" => (opvalue.tag = "Ok" /\ opvalue.v = evaluated.v)

=============================================================================
